---- MODULE Spec2Model ----
(***************************************************************************)
(* Frame Checker Pro v2 (src/main.py): the frame-sequence analysis         *)
(* (_check_folder, detect_prefix_and_ext, summarize_missing_blocks), the   *)
(* report rendering, the folder comparison and the threads that run the    *)
(* checks (the Check/Refresh handlers and the auto-refresh loop).          *)
(*                                                                         *)
(* A Python str is a sequence of one-character strings; None is the value  *)
(* NoneVal, which no str equals.                                           *)
(***************************************************************************)
EXTENDS Integers, Sequences, FiniteSets, TLC

(***************************************************************************)
(* Characters and strings                                                  *)
(***************************************************************************)

NoneVal == <<"None">>

DigitChars == <<"0", "1", "2", "3", "4", "5", "6", "7", "8", "9">>

IsDigit(c) == c \in {DigitChars[i] : i \in 1..10}

DigitVal(c) == (CHOOSE i \in 1..10 : DigitChars[i] = c) - 1

UpperChars == {"G", "N", "P", "S"}

LowerChars == {"a", "e", "g", "j", "n", "p", "r", "s", "t", "x"}

\* \w of the re module: letters, digits and the underscore
IsWord(c) == IsDigit(c) \/ c \in UpperChars \/ c \in LowerChars \/ c = "_"

\* the code point of a character: str comparison orders by it
ord(c) ==
    CASE c = " " -> 32
      [] c = "," -> 44
      [] c = "-" -> 45
      [] c = "." -> 46
      [] IsDigit(c) -> 48 + DigitVal(c)
      [] c = "G" -> 71
      [] c = "N" -> 78
      [] c = "P" -> 80
      [] c = "S" -> 83
      [] c = "_" -> 95
      [] c = "a" -> 97
      [] c = "e" -> 101
      [] c = "g" -> 103
      [] c = "j" -> 106
      [] c = "n" -> 110
      [] c = "p" -> 112
      [] c = "r" -> 114
      [] c = "s" -> 115
      [] c = "t" -> 116
      [] c = "x" -> 120

\* str.lower() of one character
lower_char(c) ==
    CASE c = "G" -> "g"
      [] c = "N" -> "n"
      [] c = "P" -> "p"
      [] c = "S" -> "s"
      [] OTHER -> c

\* str.lower()
lower(s) == [i \in 1..Len(s) |-> lower_char(s[i])]

\* str.startswith / str.endswith
startswith(f, p) == Len(p) <= Len(f) /\ SubSeq(f, 1, Len(p)) = p

endswith(f, e) == Len(e) <= Len(f) /\ SubSeq(f, Len(f) - Len(e) + 1, Len(f)) = e

\* str.lstrip(".")
RECURSIVE lstrip_dot(_)
lstrip_dot(s) == IF s # <<>> /\ Head(s) = "." THEN lstrip_dot(Tail(s)) ELSE s

\* str.strip(): whitespace removed at both ends
RECURSIVE lstrip_ws(_)
lstrip_ws(s) == IF s # <<>> /\ Head(s) = " " THEN lstrip_ws(Tail(s)) ELSE s

RECURSIVE rstrip_ws(_)
rstrip_ws(s) ==
    IF s # <<>> /\ s[Len(s)] = " " THEN rstrip_ws(SubSeq(s, 1, Len(s) - 1)) ELSE s

strip(s) == rstrip_ws(lstrip_ws(s))

\* str.split(","): the pieces between the commas, empty pieces kept
RECURSIVE split_comma(_, _)
split_comma(s, cur) ==
    IF s = <<>> THEN <<cur>>
    ELSE IF Head(s) = "," THEN <<cur>> \o split_comma(Tail(s), <<>>)
    ELSE split_comma(Tail(s), Append(cur, Head(s)))

\* str < str: lexicographic on code points
RECURSIVE str_less(_, _)
str_less(a, b) ==
    IF b = <<>> THEN FALSE
    ELSE IF a = <<>> THEN TRUE
    ELSE IF Head(a) # Head(b) THEN ord(Head(a)) < ord(Head(b))
    ELSE str_less(Tail(a), Tail(b))

\* sorted(list of str): a stable insertion sort
RECURSIVE insert_str(_, _)
insert_str(x, s) ==
    IF s = <<>> THEN <<x>>
    ELSE IF str_less(x, Head(s)) THEN <<x>> \o s
    ELSE <<Head(s)>> \o insert_str(x, Tail(s))

RECURSIVE sorted_str(_)
sorted_str(s) ==
    IF s = <<>> THEN <<>> ELSE insert_str(s[Len(s)], sorted_str(SubSeq(s, 1, Len(s) - 1)))

\* sorted(set of int)
RECURSIVE sorted_int(_)
sorted_int(S) ==
    IF S = {} THEN <<>>
    ELSE LET m == CHOOSE x \in S : \A y \in S : x <= y
         IN  <<m>> \o sorted_int(S \ {m})

Range(s) == {s[i] : i \in 1..Len(s)}

\* the value of a run of decimal digits
RECURSIVE digits_value(_)
digits_value(s) ==
    IF s = <<>> THEN 0
    ELSE 10 * digits_value(SubSeq(s, 1, Len(s) - 1)) + DigitVal(s[Len(s)])

\* the digit groups int() accepts: digits, single underscores between digits
int_groups_ok(s) ==
    /\ s # <<>>
    /\ IsDigit(s[1]) /\ IsDigit(s[Len(s)])
    /\ \A i \in 1..Len(s) : IsDigit(s[i]) \/ s[i] = "_"
    /\ \A i \in 1..(Len(s) - 1) : ~(s[i] = "_" /\ s[i + 1] = "_")

\* int(str): surrounding whitespace, an optional sign, then the digit groups;
\* ok = FALSE is the ValueError
int_parse(s) ==
    LET t == strip(s)
        neg == t # <<>> /\ t[1] = "-"
        body == IF neg THEN Tail(t) ELSE t
        digs == SelectSeq(body, IsDigit)
    IN  IF int_groups_ok(body)
        THEN [ok |-> TRUE, val |-> IF neg THEN 0 - digits_value(digs) ELSE digits_value(digs)]
        ELSE [ok |-> FALSE, val |-> 0]

\* str(int)
RECURSIVE nat_str(_)
nat_str(n) ==
    IF n < 10 THEN <<DigitChars[n + 1]>>
    ELSE Append(nat_str(n \div 10), DigitChars[(n % 10) + 1])

int_str(n) == IF n < 0 THEN <<"-">> \o nat_str(0 - n) ELSE nat_str(n)

(***************************************************************************)
(* os.path.splitext and the two regular expressions                        *)
(***************************************************************************)

\* the index of the last "." of f, 0 when there is none
last_dot(f) ==
    LET D == {i \in 1..Len(f) : f[i] = "."}
    IN  IF D = {} THEN 0 ELSE CHOOSE i \in D : \A j \in D : j <= i

\* os.path.splitext(f)[1]: from the last dot on, unless only dots precede it
splitext_ext(f) ==
    LET d == last_dot(f)
    IN  IF d > 0 /\ \E i \in 1..(d - 1) : f[i] # "."
        THEN SubSeq(f, d, Len(f))
        ELSE <<>>

\* (\.\w+)$ : the last dot is followed by one or more word characters
ext_tail_ok(f) ==
    LET d == last_dot(f)
    IN  d > 0 /\ d < Len(f) /\ \A i \in (d + 1)..Len(f) : IsWord(f[i])

\* the first index of the run of digits that ends right before index d
\* (d when no digit stands there)
digit_run_start(f, d) ==
    LET S == {s \in 1..(d - 1) : \A i \in s..(d - 1) : IsDigit(f[i])}
    IN  IF S = {} THEN d ELSE CHOOSE s \in S : \A t \in S : s <= t

\* re.search(r"(\d+)(\.\w+)$", f): the leftmost match takes the whole run
search_digits_ext(f) ==
    LET d == last_dot(f)
        s == digit_run_start(f, d)
    IN  IF ext_tail_ok(f) /\ s < d
        THEN [ok |-> TRUE, digits |-> SubSeq(f, s, d - 1), ext |-> SubSeq(f, d, Len(f))]
        ELSE [ok |-> FALSE, digits |-> <<>>, ext |-> <<>>]

\* re.match(r"(.+?)(\d+)(\.\w+)$", f): group 1 is the shortest non-empty
\* start that leaves only digits before the last dot
match_prefix_digits_ext(f) ==
    LET d == last_dot(f)
        s == digit_run_start(f, d)
        k == IF s - 1 > 1 THEN s - 1 ELSE 1
    IN  IF ext_tail_ok(f) /\ s < d /\ k <= d - 2
        THEN [ok |-> TRUE, prefix |-> SubSeq(f, 1, k),
              digits |-> SubSeq(f, k + 1, d - 1), ext |-> SubSeq(f, d, Len(f))]
        ELSE [ok |-> FALSE, prefix |-> <<>>, digits |-> <<>>, ext |-> <<>>]

(***************************************************************************)
(* UTIL                                                                    *)
(***************************************************************************)

detect_prefix_and_ext(files) ==
    IF files = <<>> THEN [prefix |-> NoneVal, ext |-> NoneVal]
    ELSE LET sample == files[1]
             m == match_prefix_digits_ext(sample)
         IN  IF m.ok THEN [prefix |-> m.prefix, ext |-> m.ext]
             ELSE [prefix |-> NoneVal, ext |-> splitext_ext(sample)]

\* one block of summarize_missing_blocks: "N" or "N-M"
block_token(start, prev) ==
    IF start = prev THEN int_str(start) ELSE int_str(start) \o <<"-">> \o int_str(prev)

\* the loop with a run also continued across a gap of one
RECURSIVE summarize_loop_gap(_, _, _, _, _)
summarize_loop_gap(missing, i, start, prev, blocks) ==
    IF i > Len(missing) THEN Append(blocks, block_token(start, prev))
    ELSE IF missing[i] <= prev + 2
         THEN summarize_loop_gap(missing, i + 1, start, missing[i], blocks)
         ELSE summarize_loop_gap(missing, i + 1, missing[i], missing[i],
                                 Append(blocks, block_token(start, prev)))

\* the loop of summarize_missing_blocks from missing[i] on
RECURSIVE summarize_loop(_, _, _, _, _)
summarize_loop(missing, i, start, prev, blocks) ==
    IF i > Len(missing) THEN Append(blocks, block_token(start, prev))
    ELSE IF missing[i] = prev + 1
         THEN summarize_loop(missing, i + 1, start, missing[i], blocks)
         ELSE summarize_loop(missing, i + 1, missing[i], missing[i],
                             Append(blocks, block_token(start, prev)))

summarize_missing_blocks(missing) ==
    IF missing = <<>> THEN <<>>
    ELSE summarize_loop(missing, 2, missing[1], missing[1], <<>>)

(***************************************************************************)
(* CONFIG                                                                  *)
(***************************************************************************)

SUPPORTED_IMAGE_FORMATS ==
    { <<".", "e", "x", "r">>, <<".", "p", "n", "g">>, <<".", "j", "p", "g">>,
      <<".", "j", "p", "e", "g">>, <<".", "t", "i", "f">>, <<".", "t", "i", "f", "f">>,
      <<".", "b", "m", "p">> }

(***************************************************************************)
(* _check_folder, as a function of what it reads: the directory (whether   *)
(* os.listdir succeeds, and the regular files it lists, in its order), the *)
(* "Allowed formats" entry and the "Auto-detect" check box                 *)
(***************************************************************************)

\* the listing taken in the order os.listdir gives it
all_files_listed(dir) == dir.listing

\* line 340: sorted([f for f in os.listdir(folder) if isfile(...)])
all_files_of(dir) == sorted_str(dir.listing)

\* line 343: the allow-list typed by the user
nonblank(s) == strip(s) # <<>>

strip_lower(s) == lower(strip(s))

allowed_of(formats) ==
    LET kept == SelectSeq(split_comma(formats, <<>>), nonblank)
    IN  [i \in 1..Len(kept) |-> strip_lower(kept[i])]

\* the extension filter comparing the extension as it is spelled
is_candidate_cased(f, allowed) ==
    IF allowed # <<>>
    THEN lstrip_dot(splitext_ext(f)) \in Range(allowed)
    ELSE splitext_ext(f) \in SUPPORTED_IMAGE_FORMATS

\* lines 345 and 347: whether file f passes the extension filter
is_candidate(f, allowed) ==
    IF allowed # <<>>
    THEN lower(lstrip_dot(splitext_ext(f))) \in Range(allowed)
    ELSE lower(splitext_ext(f)) \in SUPPORTED_IMAGE_FORMATS

\* lines 344-347
filter_files(all_files, allowed) ==
    LET keep(f) == is_candidate(f, allowed)
    IN  SelectSeq(all_files, keep)

\* line 356: the prefix/extension test of the extraction loop
matches_pattern(f, prefix, ext) ==
    /\ prefix # NoneVal /\ prefix # <<>>
    /\ ext # NoneVal /\ ext # <<>>
    /\ startswith(f, prefix) /\ endswith(f, ext)

\* the extraction with the digit search tried again after a failed int(body)
file_nums_fallback(f, prefix, ext) ==
    LET m == search_digits_ext(f)
        by_search == IF m.ok THEN <<int_parse(m.digits).val>> ELSE <<>>
    IN  IF matches_pattern(f, prefix, ext)
        THEN LET n == int_parse(SubSeq(f, Len(prefix) + 1, Len(f) - Len(ext)))
             IN  IF n.ok THEN <<n.val>> ELSE by_search
        ELSE by_search

\* lines 356-364: the numbers file f appends to nums (none or one)
file_nums(f, prefix, ext) ==
    IF matches_pattern(f, prefix, ext)
    THEN LET body == SubSeq(f, Len(prefix) + 1, Len(f) - Len(ext))
             n == int_parse(body)
         IN  IF n.ok THEN <<n.val>> ELSE <<>>
    ELSE LET m == search_digits_ext(f)
         IN  IF m.ok THEN <<int_parse(m.digits).val>> ELSE <<>>

\* the loop left at the first file that gives no number
RECURSIVE extract_nums_abort(_, _, _)
extract_nums_abort(files, prefix, ext) ==
    IF files = <<>> \/ file_nums(Head(files), prefix, ext) = <<>> THEN <<>>
    ELSE file_nums(Head(files), prefix, ext) \o extract_nums_abort(Tail(files), prefix, ext)

\* lines 354-364: nums after the loop
RECURSIVE extract_nums(_, _, _)
extract_nums(files, prefix, ext) ==
    IF files = <<>> THEN <<>>
    ELSE file_nums(Head(files), prefix, ext) \o extract_nums(Tail(files), prefix, ext)

\* lines 367-370: the frames found and the gaps between the first and the last
frames_of(nums) == sorted_int(Range(nums))

\* missing_of with the range shifted by one: range(start + 1, end + 2)
missing_of_shifted(frames) ==
    LET start == frames[1]
        end == frames[Len(frames)]
    IN  sorted_int(((start + 1)..(end + 1)) \ Range(frames))

missing_of(frames) ==
    LET start == frames[1]
        end == frames[Len(frames)]
    IN  sorted_int((start..end) \ Range(frames))

\* lines 350-353: the pattern; files[0] of an empty list raises IndexError
pattern_of(files, auto_detect) ==
    IF auto_detect THEN [raised |-> FALSE] @@ detect_prefix_and_ext(files)
    ELSE IF files = <<>> THEN [raised |-> TRUE, prefix |-> NoneVal, ext |-> NoneVal]
    ELSE [raised |-> FALSE, prefix |-> NoneVal, ext |-> splitext_ext(files[1])]

\* the early return of line 348 never taken
no_files_never(files) == FALSE

\* line 348: if not files
no_files(files) == files = <<>>

\* line 365: if not nums
no_nums(nums) == nums = <<>>

\* the value of a local variable: the one element of {e}, computed once
\* where it is assigned, as a Python local is
the(S) == CHOOSE x \in S : TRUE

\* what one run of _check_folder stores in the slot (raised: it stored
\* nothing and the exception left the function); files is its candidate list
_check_folder(dir, formats, auto_detect) ==
    IF ~dir.readable
    THEN [raised |-> FALSE, files |-> <<>>, frames |-> <<>>, missing |-> <<>>,
          prefix |-> NoneVal, ext |-> NoneVal]
    ELSE the({
        IF no_files(files)
        THEN [raised |-> FALSE, files |-> files, frames |-> <<>>, missing |-> <<>>,
              prefix |-> NoneVal, ext |-> NoneVal]
        ELSE the({
            IF pat.raised
            THEN [raised |-> TRUE, files |-> files, frames |-> <<>>,
                  missing |-> <<>>, prefix |-> NoneVal, ext |-> NoneVal]
            ELSE the({
                IF no_nums(nums)
                THEN [raised |-> FALSE, files |-> files, frames |-> <<>>,
                      missing |-> <<>>, prefix |-> pat.prefix, ext |-> pat.ext]
                ELSE the({
                    [raised |-> FALSE, files |-> files, frames |-> frames,
                     missing |-> missing_of(frames),
                     prefix |-> pat.prefix, ext |-> pat.ext]
                    : frames \in {frames_of(nums)} })
                : nums \in {extract_nums(files, pat.prefix, pat.ext)} })
            : pat \in {pattern_of(files, auto_detect)} })
        : files \in {filter_files(all_files_of(dir), allowed_of(formats))} })

(***************************************************************************)
(* Report                                                                  *)
(***************************************************************************)

\* the ratio found / total in hundredths, without the factor 100
pct_hundredths_unscaled(found, total) == (found * 100) \div total

\* "{x:.2f}" of x = 100 * found / total, in hundredths, the nearest one
\* (a tie goes to the even one)
pct_hundredths(found, total) ==
    LET q == (found * 10000) \div total
        r == (found * 10000) % total
    IN  IF 2 * r > total \/ (2 * r = total /\ q % 2 = 1) THEN q + 1 ELSE q

two_digits(n) == <<DigitChars[(n \div 10) + 1], DigitChars[(n % 10) + 1]>>

\* line 383
completeness_of(found, total) ==
    IF total # 0
    THEN LET h == pct_hundredths(found, total)
         IN  nat_str(h \div 100) \o <<".">> \o two_digits(h % 100) \o <<"%">>
    ELSE <<"0", "%">>

\* line 329: the folder's status in the tree after a check
status_after_check(missing) ==
    IF missing = <<>> THEN <<"Done">> ELSE <<"Missing", Len(missing)>>

\* lines 394-402: the closing part of the report
report_message(missing) ==
    IF missing # <<>>
    THEN [kind |-> "Missing Blocks", blocks |-> summarize_missing_blocks(missing)]
    ELSE [kind |-> "All frames complete", blocks |-> <<>>]

\* lines 376-412: the report shown for a slot
_render_report_for(slot) ==
    LET frames == slot.frames
        missing == slot.missing
        start == IF frames # <<>> THEN frames[1] ELSE 0
        end == IF frames # <<>> THEN frames[Len(frames)] ELSE 0
        total == IF frames # <<>> THEN end - start + 1 ELSE 0
    IN  [kind |-> "report", path |-> slot.path, prefix |-> slot.prefix, ext |-> slot.ext,
         start |-> start, end |-> end, found |-> Len(frames), total |-> total,
         completeness |-> completeness_of(Len(frames), total),
         n_missing |-> Len(missing), message |-> report_message(missing),
         status_label |-> <<Len(frames), Len(missing)>>]

\* the three lists with the union taken for the common frames
compare_frames_union(a_frames, b_frames) ==
    [only_a |-> sorted_int(Range(a_frames) \ Range(b_frames)),
     only_b |-> sorted_int(Range(b_frames) \ Range(a_frames)),
     both |-> sorted_int(Range(a_frames) \cup Range(b_frames))]

\* line 655: the three lists of a comparison
compare_frames(a_frames, b_frames) ==
    [only_a |-> sorted_int(Range(a_frames) \ Range(b_frames)),
     only_b |-> sorted_int(Range(b_frames) \ Range(a_frames)),
     both |-> sorted_int(Range(a_frames) \cap Range(b_frames))]

(***************************************************************************)
(* The application state                                                   *)
(***************************************************************************)

VARIABLES
    disk,              \* the file system: folder path -> what os.listdir finds
    var_formats,       \* the "Allowed formats" entry
    var_auto_detect,   \* the "Auto-detect prefix & ext" check box
    var_auto_refresh,  \* the "Auto-refresh" check box
    stop_auto_refresh, \* the threading.Event: TRUE when set
    slots,             \* the folder dicts ever created, by identity
    next_id,           \* the identity of the next dict _add_folder creates
    selected_folders,  \* self.selected_folders: the dicts' identities, in order
    selection,         \* self.tree.selection(): the selected iids, in tree order
    threads,           \* the threads started by the handlers
    main,              \* the Tk main thread inside _compare_two_selected
    report,            \* txt_report / last_report_text
    util,              \* a call of summarize_missing_blocks in isolation
    preview,           \* _current_preview_slot and slideshow_playing
    n_user,            \* how many handlers the user has triggered so far
    n_changes          \* how many times a folder's content changed so far

vars == <<disk, var_formats, var_auto_detect, var_auto_refresh, stop_auto_refresh,
          slots, next_id, selected_folders, selection, threads, main, report, util,
          preview, n_user, n_changes>>

\* Bounds of the model
MaxFiles == 3

MaxAdds == 2

MaxThreads == 2

MaxUserActions == 5

MaxDiskChanges == 1

MaxFrame == 5

MaxNegFrame == 2

\* line 59
AUTO_REFRESH_INTERVAL == 5

Paths == {"A", "B"}

Tids == 1..MaxThreads

\* File names that folders hold
Name(s) ==
    CASE s = "s_1.png" -> <<"s", "_", "1", ".", "p", "n", "g">>
      [] s = "s_2.png" -> <<"s", "_", "2", ".", "p", "n", "g">>
      [] s = "s_04.png" -> <<"s", "_", "0", "4", ".", "p", "n", "g">>
      [] s = "s_-6.png" -> <<"s", "_", "-", "6", ".", "p", "n", "g">>
      [] s = "s_1_0.png" -> <<"s", "_", "1", "_", "0", ".", "p", "n", "g">>
      [] s = "S_3.PNG" -> <<"S", "_", "3", ".", "P", "N", "G">>
      [] s = "s_5.exr" -> <<"s", "_", "5", ".", "e", "x", "r">>
      [] s = "42.png" -> <<"4", "2", ".", "p", "n", "g">>
      [] s = "7.png" -> <<"7", ".", "p", "n", "g">>
      [] s = "x.png" -> <<"x", ".", "p", "n", "g">>
      [] s = "n.txt" -> <<"n", ".", "t", "x", "t">>
      [] s = "s_a1.png" -> <<"s", "_", "a", "1", ".", "p", "n", "g">>

Names ==
    { Name("s_1.png"), Name("s_2.png"), Name("s_04.png"), Name("s_-6.png"),
      Name("s_1_0.png"), Name("S_3.PNG"), Name("s_5.exr"), Name("42.png"),
      Name("7.png"), Name("x.png"), Name("n.txt"), Name("s_a1.png") }

\* what the user may type into "Allowed formats"
FormatsDefault == <<"p", "n", "g", ",", "e", "x", "r", ",", "j", "p", "g">>

FormatChoices ==
    { FormatsDefault,
      <<>>,
      <<" ", "P", "N", "G", ",", " ", "t", "x", "t", ",">>,
      <<".", "p", "n", "g">> }

\* the listings os.listdir may return: distinct names, in any order
Listings ==
    UNION { { l \in [1..n -> Names] : \A i, j \in 1..n : i # j => l[i] # l[j] }
            : n \in 0..MaxFiles }

Dirs ==
    { [readable |-> TRUE, listing |-> l] : l \in Listings }
        \cup { [readable |-> FALSE, listing |-> <<>>] }

EmptyDir == [readable |-> TRUE, listing |-> <<>>]

\* the folder contents the running application is watched with
WatchedDirs ==
    { EmptyDir,
      [readable |-> TRUE, listing |-> <<Name("s_1.png"), Name("s_04.png")>>] }

\* line 282: the dict _add_folder creates
new_slot(path) ==
    [path |-> path, prefix |-> NoneVal, ext |-> NoneVal, frames |-> <<>>,
     missing |-> <<>>, last_checked |-> "None", status |-> <<"Idle">>,
     _preview_idx |-> 0]

NoSlot == new_slot("none")

NoResult ==
    [raised |-> FALSE, files |-> <<>>, frames |-> <<>>, missing |-> <<>>,
     prefix |-> NoneVal, ext |-> NoneVal]

\* orig: the folders the rows of sel stood for when the pass was started
NoThread ==
    [kind |-> "free", pc |-> "none", sel |-> <<>>, orig |-> {}, i |-> 0, slot |-> 0,
     res |-> NoResult, k |-> 0, sleep |-> 0]

MainIdle ==
    [pc |-> "idle", a |-> 0, b |-> 0, res |-> NoResult, k |-> 0,
     sets |-> compare_frames(<<>>, <<>>)]

NoReport == [kind |-> "none"]

\* lines 118 and 472: no preview slot yet (slot 0), the slideshow stopped
NoPreview == [slot |-> 0, playing |-> FALSE]

NoUtil == [pc |-> "none", missing |-> <<>>, blocks |-> <<>>]

\* the four assignments with which _check_folder stores its result, in the
\* order of lines 342, 349, 366 and 371; another thread may run between them
StoredFields == <<"frames", "missing", "prefix", "ext">>

store_field(slot, res, k) == [slot EXCEPT ![StoredFields[k]] = res[StoredFields[k]]]

\* the iids of every folder of the tree
all_iids == [i \in 1..Len(selected_folders) |-> i - 1]

\* line 117 and the widgets' initial values (lines 161, 164, 167)
Init ==
    /\ disk = [p \in Paths |-> EmptyDir]
    /\ var_formats = FormatsDefault
    /\ var_auto_detect = TRUE
    /\ var_auto_refresh = FALSE
    /\ stop_auto_refresh = FALSE
    /\ slots = [i \in 1..MaxAdds |-> NoSlot]
    /\ next_id = 1
    /\ selected_folders = <<>>
    /\ selection = <<>>
    /\ threads = [t \in Tids |-> NoThread]
    /\ main = MainIdle
    /\ report = NoReport
    /\ util = NoUtil
    /\ n_user = 0
    /\ n_changes = 0
    /\ preview = NoPreview

(***************************************************************************)
(* Folder management and settings (handlers of the Tk main thread: one     *)
(* runs at a time, none while _compare_two_selected is running)            *)
(***************************************************************************)

_refresh_tree == selection' = <<>>

paths_added == {slots[selected_folders[i]].path : i \in 1..Len(selected_folders)}

\* lines 276-285
_add_folder(folder) ==
    /\ main.pc = "idle"
    /\ n_user < MaxUserActions
    /\ n_user' = n_user + 1
    /\ folder \notin paths_added
    /\ next_id <= MaxAdds
    /\ slots' = [slots EXCEPT ![next_id] = new_slot(folder)]
    /\ selected_folders' = Append(selected_folders, next_id)
    /\ next_id' = next_id + 1
    /\ _refresh_tree
    /\ UNCHANGED <<disk, var_formats, var_auto_detect, var_auto_refresh,
                   stop_auto_refresh, threads, main, report, util, preview, n_changes>>

\* lines 287-297
_remove_selected ==
    /\ main.pc = "idle"
    /\ n_user < MaxUserActions
    /\ n_user' = n_user + 1
    /\ selection # <<>>
    /\ LET keep(i) == (i - 1) \notin Range(selection)
           kept == SelectSeq([i \in 1..Len(selected_folders) |-> i], keep)
       IN  selected_folders' = [k \in 1..Len(kept) |-> selected_folders[kept[k]]]
    /\ _refresh_tree
    /\ report' = NoReport
    /\ UNCHANGED <<disk, var_formats, var_auto_detect, var_auto_refresh,
                   stop_auto_refresh, slots, next_id, threads, main, util, preview, n_changes>>

\* the user selects rows of the tree
SelectRows(S) ==
    /\ main.pc = "idle"
    /\ n_user < MaxUserActions
    /\ n_user' = n_user + 1
    /\ S \subseteq Range(all_iids)
    /\ selection' = sorted_int(S)
    /\ selection' # selection
    /\ UNCHANGED <<disk, var_formats, var_auto_detect, var_auto_refresh,
                   stop_auto_refresh, slots, next_id, selected_folders, threads,
                   main, report, util, preview, n_changes>>

\* a renderer (or the user) changes what a folder holds
DiskChange(p, d) ==
    /\ n_changes < MaxDiskChanges
    /\ d # disk[p]
    /\ disk' = [disk EXCEPT ![p] = d]
    /\ n_changes' = n_changes + 1
    /\ UNCHANGED <<var_formats, var_auto_detect, var_auto_refresh, stop_auto_refresh,
                   slots, next_id, selected_folders, selection, threads, main, report,
                   util, preview, n_user>>

(***************************************************************************)
(* Checking logic (threaded)                                               *)
(***************************************************************************)

free_tids == {t \in Tids : threads[t].kind = "free"}

first_free == CHOOSE t \in free_tids : \A u \in free_tids : t <= u

\* the folders that the rows sel of the tree stand for
folders_of(sel) ==
    { selected_folders[sel[i] + 1] :
          i \in { j \in 1..Len(sel) : sel[j] >= 0 /\ sel[j] < Len(selected_folders) } }

\* lines 308-314: Check Selected, Refresh, Ctrl+R
_run_check_selected ==
    /\ main.pc = "idle"
    /\ selection # <<>>
    /\ free_tids # {}
    /\ n_user < MaxUserActions
    /\ threads' = [threads EXCEPT ![first_free] =
                       [NoThread EXCEPT !.kind = "check", !.pc = "w_iter",
                                        !.sel = selection, !.i = 1,
                                        !.orig = folders_of(selection)]]
    /\ n_user' = n_user + 1
    /\ UNCHANGED <<disk, var_formats, var_auto_detect, var_auto_refresh,
                   stop_auto_refresh, slots, next_id, selected_folders, selection,
                   main, report, util, preview, n_changes>>

\* line 323
idx_in_range(idx) == ~(idx < 0 \/ idx >= Len(selected_folders))

\* where _worker_check returns to: the manual thread ends, the auto-refresh
\* loop goes on to its interval (line 682)
after_worker(th) ==
    IF th.kind = "auto"
    THEN [NoThread EXCEPT !.kind = "auto", !.pc = "a_sleep", !.sleep = AUTO_REFRESH_INTERVAL]
    ELSE NoThread

\* lines 318-327: the head of the loop, up to the call of _check_folder
WorkerIter(t) ==
    /\ threads[t].pc = "w_iter"
    /\ LET th == threads[t]
       IN  IF th.i > Len(th.sel)
           THEN /\ threads' = [threads EXCEPT ![t] = after_worker(th)]
                /\ UNCHANGED <<slots, selection>>
           ELSE IF ~idx_in_range(th.sel[th.i])
           THEN /\ threads' = [threads EXCEPT ![t].i = th.i + 1]
                /\ UNCHANGED <<slots, selection>>
           ELSE LET id == selected_folders[th.sel[th.i] + 1]
                IN  /\ slots' = [slots EXCEPT ![id].status = <<"Checking">>]
                    /\ _refresh_tree
                    /\ threads' = [threads EXCEPT ![t].pc = "w_list", ![t].slot = id]
    /\ UNCHANGED <<disk, var_formats, var_auto_detect, var_auto_refresh,
                   stop_auto_refresh, next_id, selected_folders, main, report, util,
                   preview, n_user, n_changes>>

\* lines 338-370: _check_folder reads the directory and the settings and
\* computes; an exception ends the thread
WorkerListdir(t) ==
    /\ threads[t].pc = "w_list"
    /\ LET th == threads[t]
           res == _check_folder(disk[slots[th.slot].path], var_formats, var_auto_detect)
       IN  threads' = [threads EXCEPT ![t] =
                           IF res.raised THEN NoThread
                           ELSE [th EXCEPT !.pc = "w_store", !.res = res, !.k = 1]]
    /\ UNCHANGED <<disk, var_formats, var_auto_detect, var_auto_refresh,
                   stop_auto_refresh, slots, next_id, selected_folders, selection,
                   main, report, util, preview, n_user, n_changes>>

\* lines 342, 349, 366, 371: _check_folder stores the next field of its
\* result, and returns after the last
WorkerStore(t) ==
    /\ threads[t].pc = "w_store"
    /\ LET th == threads[t]
       IN  /\ slots' = [slots EXCEPT ![th.slot] = store_field(@, th.res, th.k)]
           /\ threads' = [threads EXCEPT ![t] =
                              IF th.k < Len(StoredFields)
                              THEN [th EXCEPT !.k = th.k + 1]
                              ELSE [th EXCEPT !.pc = "w_finish", !.k = 0]]
    /\ UNCHANGED <<disk, var_formats, var_auto_detect, var_auto_refresh,
                   stop_auto_refresh, next_id, selected_folders, selection, main,
                   report, util, preview, n_user, n_changes>>

\* lines 431-435: without frames _load_thumbnails returns before line 468
has_preview(slot) == slot.frames # <<>>

\* lines 468-469, reached from line 415 of _render_report_for: the preview
\* starts at the middle frame
_load_thumbnails(slot) ==
    IF has_preview(slot) THEN [slot EXCEPT !._preview_idx = Len(slot.frames) \div 2]
    ELSE slot

\* lines 328-334: status, tree, report, preview
WorkerFinish(t) ==
    /\ threads[t].pc = "w_finish"
    /\ LET th == threads[t]
           slot == [slots[th.slot] EXCEPT !.last_checked = "now",
                                          !.status = status_after_check(slots[th.slot].missing)]
       IN  /\ slots' = [slots EXCEPT ![th.slot] = _load_thumbnails(slot)]
           /\ _refresh_tree
           /\ report' = _render_report_for(slot)
           /\ preview' = IF has_preview(slot) THEN [preview EXCEPT !.slot = th.slot]
                         ELSE preview
           /\ threads' = [threads EXCEPT ![t] =
                              [th EXCEPT !.pc = "w_iter", !.i = th.i + 1, !.slot = 0,
                                         !.res = NoResult]]
    /\ UNCHANGED <<disk, var_formats, var_auto_detect, var_auto_refresh,
                   stop_auto_refresh, next_id, selected_folders, main, util, n_user,
                   n_changes>>

(***************************************************************************)
(* Auto-refresh (watch)                                                    *)
(***************************************************************************)

\* lines 668-675: the check box was clicked
_toggle_auto_refresh ==
    /\ main.pc = "idle"
    /\ n_user < MaxUserActions
    /\ n_user' = n_user + 1
    /\ var_auto_refresh' = ~var_auto_refresh
    /\ IF var_auto_refresh'
       THEN /\ free_tids # {}
            /\ stop_auto_refresh' = FALSE
            /\ threads' = [threads EXCEPT ![first_free] =
                               [NoThread EXCEPT !.kind = "auto", !.pc = "a_test"]]
       ELSE /\ stop_auto_refresh' = TRUE
            /\ UNCHANGED threads
    /\ UNCHANGED <<disk, var_formats, var_auto_detect, slots, next_id, selected_folders,
                   selection, main, report, util, preview, n_changes>>

\* the loop's test taken as always true
loop_continues_always == TRUE

\* line 678: while not self.stop_auto_refresh.is_set()
loop_continues == ~stop_auto_refresh

\* lines 678-681: the loop's test and the start of a pass over every folder
AutoLoopTest(t) ==
    /\ threads[t].pc = "a_test"
    /\ threads' = [threads EXCEPT ![t] =
                       IF ~loop_continues THEN NoThread
                       ELSE IF selected_folders # <<>>
                       THEN [@ EXCEPT !.pc = "w_iter", !.sel = all_iids, !.i = 1,
                                      !.orig = folders_of(all_iids)]
                       ELSE [@ EXCEPT !.pc = "a_sleep", !.sleep = AUTO_REFRESH_INTERVAL]]
    /\ UNCHANGED <<disk, var_formats, var_auto_detect, var_auto_refresh,
                   stop_auto_refresh, slots, next_id, selected_folders, selection,
                   main, report, util, preview, n_user, n_changes>>

\* lines 683-685: one round of the interval: the flag is polled, then a
\* second is slept
AutoSleep(t) ==
    /\ threads[t].pc = "a_sleep"
    /\ LET th == threads[t]
       IN  threads' = [threads EXCEPT ![t] =
                           IF stop_auto_refresh \/ th.sleep = 1
                           THEN [th EXCEPT !.pc = "a_test", !.sleep = 0]
                           ELSE [th EXCEPT !.sleep = th.sleep - 1]]
    /\ UNCHANGED <<disk, var_formats, var_auto_detect, var_auto_refresh,
                   stop_auto_refresh, slots, next_id, selected_folders, selection,
                   main, report, util, preview, n_user, n_changes>>

(***************************************************************************)
(* Compare 2 selected (runs on the main thread; the worker threads go on   *)
(* while it reads a directory)                                             *)
(***************************************************************************)

\* the test of lines 652-653 taken as always true
needs_check_always(slot) == TRUE

\* lines 652-653: "if not a.get('frames')"
needs_check(slot) == slot.frames = <<>>

\* where the handler goes once folder a is dealt with
compare_after_a(b) == IF needs_check(slots[b]) THEN "cmp_b_list" ELSE "cmp_sets"

\* lines 646-652: the selection is read and folder a examined
CompareBegin ==
    /\ main.pc = "idle"
    /\ n_user < MaxUserActions
    /\ n_user' = n_user + 1
    /\ Len(selection) = 2
    /\ LET a == selected_folders[selection[1] + 1]
           b == selected_folders[selection[2] + 1]
       IN  main' = [MainIdle EXCEPT !.a = a, !.b = b,
                        !.pc = IF needs_check(slots[a]) THEN "cmp_a_list"
                               ELSE compare_after_a(b)]
    /\ UNCHANGED <<disk, var_formats, var_auto_detect, var_auto_refresh,
                   stop_auto_refresh, slots, next_id, selected_folders, selection,
                   threads, report, util, preview, n_changes>>

\* the handler's _check_folder reads the directory and computes; an
\* exception ends the handler
CompareListdir ==
    /\ main.pc \in {"cmp_a_list", "cmp_b_list"}
    /\ LET id == IF main.pc = "cmp_a_list" THEN main.a ELSE main.b
           res == _check_folder(disk[slots[id].path], var_formats, var_auto_detect)
       IN  main' = IF res.raised THEN MainIdle
                   ELSE [main EXCEPT !.res = res, !.k = 1,
                            !.pc = IF main.pc = "cmp_a_list" THEN "cmp_a_store"
                                   ELSE "cmp_b_store"]
    /\ UNCHANGED <<disk, var_formats, var_auto_detect, var_auto_refresh,
                   stop_auto_refresh, slots, next_id, selected_folders, selection,
                   threads, report, util, preview, n_user, n_changes>>

\* the handler's _check_folder stores the next field of its result; after
\* the last, line 653 examines folder b
CompareStore ==
    /\ main.pc \in {"cmp_a_store", "cmp_b_store"}
    /\ LET id == IF main.pc = "cmp_a_store" THEN main.a ELSE main.b
       IN  /\ slots' = [slots EXCEPT ![id] = store_field(@, main.res, main.k)]
           /\ main' = IF main.k < Len(StoredFields)
                      THEN [main EXCEPT !.k = main.k + 1]
                      ELSE [main EXCEPT !.res = NoResult, !.k = 0,
                               !.pc = IF main.pc = "cmp_a_store" THEN compare_after_a(main.b)
                                      ELSE "cmp_sets"]
    /\ UNCHANGED <<disk, var_formats, var_auto_detect, var_auto_refresh,
                   stop_auto_refresh, next_id, selected_folders, selection, threads,
                   report, util, preview, n_user, n_changes>>

\* lines 654-655
CompareSets ==
    /\ main.pc = "cmp_sets"
    /\ main' = [main EXCEPT !.pc = "cmp_report",
                   !.sets = compare_frames(slots[main.a].frames, slots[main.b].frames)]
    /\ UNCHANGED <<disk, var_formats, var_auto_detect, var_auto_refresh,
                   stop_auto_refresh, slots, next_id, selected_folders, selection,
                   threads, report, util, preview, n_user, n_changes>>

\* lines 656-663: the comparison replaces the report
CompareReport ==
    /\ main.pc = "cmp_report"
    /\ report' = [kind |-> "compare", a |-> slots[main.a].path, b |-> slots[main.b].path,
                  only_a |-> main.sets.only_a, only_b |-> main.sets.only_b,
                  n_common |-> Len(main.sets.both)]
    /\ main' = MainIdle
    /\ UNCHANGED <<disk, var_formats, var_auto_detect, var_auto_refresh,
                   stop_auto_refresh, slots, next_id, selected_folders, selection,
                   threads, util, preview, n_user, n_changes>>

_compare_two_selected ==
    CompareBegin \/ CompareListdir \/ CompareStore \/ CompareSets \/ CompareReport

(***************************************************************************)
(* The application                                                         *)
(***************************************************************************)

Next ==
    \/ \E folder \in Paths : _add_folder(folder)
    \/ _remove_selected
    \/ \E S \in SUBSET (0..(MaxAdds - 1)) : SelectRows(S)
    \/ \E p \in Paths, d \in WatchedDirs : DiskChange(p, d)
    \/ _run_check_selected
    \/ \E t \in Tids : WorkerIter(t)
    \/ \E t \in Tids : WorkerListdir(t)
    \/ \E t \in Tids : WorkerStore(t)
    \/ \E t \in Tids : WorkerFinish(t)
    \/ _toggle_auto_refresh
    \/ \E t \in Tids : AutoLoopTest(t)
    \/ \E t \in Tids : AutoSleep(t)
    \/ CompareBegin
    \/ CompareListdir
    \/ CompareStore
    \/ CompareSets
    \/ CompareReport

Spec == Init /\ [][Next]_vars

(***************************************************************************)
(* One check of one folder, run alone: the folder's content, the allowed   *)
(* formats and the auto-detect box are arbitrary; one worker thread takes  *)
(* the folder through _worker_check.                                       *)
(***************************************************************************)

InitCheck ==
    /\ disk \in { [p \in Paths |-> IF p = "A" THEN d ELSE EmptyDir] : d \in Dirs }
    /\ var_formats \in FormatChoices
    /\ var_auto_detect \in BOOLEAN
    /\ var_auto_refresh = FALSE
    /\ stop_auto_refresh = FALSE
    /\ slots = [i \in 1..MaxAdds |-> IF i = 1 THEN new_slot("A") ELSE NoSlot]
    /\ next_id = 2
    /\ selected_folders = <<1>>
    /\ selection = <<>>
    /\ threads = [t \in Tids |->
                     IF t = 1
                     THEN [NoThread EXCEPT !.kind = "check", !.pc = "w_iter",
                                           !.sel = <<0>>, !.i = 1, !.orig = {1}]
                     ELSE NoThread]
    /\ main = MainIdle
    /\ report = NoReport
    /\ util = NoUtil
    /\ n_user = 0
    /\ n_changes = 0
    /\ preview = NoPreview

NextCheck ==
    \/ \E t \in Tids : WorkerIter(t)
    \/ \E t \in Tids : WorkerListdir(t)
    \/ \E t \in Tids : WorkerStore(t)
    \/ \E t \in Tids : WorkerFinish(t)

SpecCheck == InitCheck /\ [][NextCheck]_vars

(***************************************************************************)
(* summarize_missing_blocks, called with an arbitrary strictly increasing  *)
(* list                                                                    *)
(***************************************************************************)

MinFrame == 0 - MaxNegFrame

IncreasingLists == {sorted_int(S) : S \in SUBSET (MinFrame..MaxFrame)}

InitBlocks ==
    /\ Init!1 /\ Init!2 /\ Init!3 /\ Init!4 /\ Init!5 /\ Init!6 /\ Init!7 /\ Init!8
    /\ Init!9 /\ Init!10 /\ Init!11 /\ Init!12
    /\ util \in {[pc |-> "call", missing |-> m, blocks |-> <<>>] : m \in IncreasingLists}
    /\ n_user = 0
    /\ n_changes = 0
    /\ preview = NoPreview

SummarizeCall ==
    /\ util.pc = "call"
    /\ util' = [util EXCEPT !.pc = "done", !.blocks = summarize_missing_blocks(util.missing)]
    /\ UNCHANGED <<disk, var_formats, var_auto_detect, var_auto_refresh,
                   stop_auto_refresh, slots, next_id, selected_folders, selection,
                   threads, main, report, preview, n_user, n_changes>>

NextBlocks == SummarizeCall

SpecBlocks == InitBlocks /\ [][NextBlocks]_vars

(***************************************************************************)
(* Compare 2 selected, run alone on two folders whose stored frames are    *)
(* arbitrary                                                               *)
(***************************************************************************)

FrameLists == {sorted_int(S) : S \in SUBSET (0..MaxFrame)}

checked_slot(path, frames) ==
    [new_slot(path) EXCEPT !.frames = frames,
                           !.missing = IF frames = <<>> THEN <<>> ELSE missing_of(frames)]

InitCompare ==
    /\ disk = [p \in Paths |-> EmptyDir]
    /\ var_formats = FormatsDefault
    /\ var_auto_detect = TRUE
    /\ var_auto_refresh = FALSE
    /\ stop_auto_refresh = FALSE
    /\ slots \in { [i \in 1..MaxAdds |->
                       IF i = 1 THEN checked_slot("A", fa)
                       ELSE IF i = 2 THEN checked_slot("B", fb) ELSE NoSlot]
                   : fa \in FrameLists, fb \in FrameLists }
    /\ next_id = 3
    /\ selected_folders = <<1, 2>>
    /\ selection = <<0, 1>>
    /\ threads = [t \in Tids |-> NoThread]
    /\ main = MainIdle
    /\ report = NoReport
    /\ util = NoUtil
    /\ n_user = 0
    /\ n_changes = 0
    /\ preview = NoPreview

NextCompare ==
    \/ CompareBegin
    \/ CompareListdir
    \/ CompareStore
    \/ CompareSets
    \/ CompareReport

SpecCompare == InitCompare /\ [][NextCompare]_vars

(***************************************************************************)
(* Thumbnails & Preview, Slideshow                                         *)
(***************************************************************************)

\* lines 474-476: the index _preview_prev stores
prev_idx(slot) ==
    LET idx == slot._preview_idx - 1 IN IF idx < 0 THEN 0 ELSE idx

\* lines 481-483: the index _preview_next stores
next_idx(slot) ==
    LET idx == slot._preview_idx + 1
    IN  IF idx >= Len(slot.frames) THEN Len(slot.frames) - 1 ELSE idx

\* lines 478-483, run by the button and by the slideshow; _preview_update
\* (485-506) shows the frame and keeps the slot as the preview slot
preview_next_effect ==
    IF preview.slot = 0 THEN UNCHANGED slots
    ELSE slots' = [slots EXCEPT ![preview.slot]._preview_idx = next_idx(slots[preview.slot])]

\* lines 471-476: the button "previous"
_preview_prev ==
    /\ main.pc = "idle"
    /\ n_user < MaxUserActions
    /\ n_user' = n_user + 1
    /\ IF preview.slot = 0 THEN UNCHANGED slots
       ELSE slots' = [slots EXCEPT ![preview.slot]._preview_idx = prev_idx(slots[preview.slot])]
    /\ UNCHANGED <<disk, var_formats, var_auto_detect, var_auto_refresh,
                   stop_auto_refresh, next_id, selected_folders, selection, threads,
                   main, report, util, preview, n_changes>>

\* lines 478-483: the button "next"
_preview_next ==
    /\ main.pc = "idle"
    /\ n_user < MaxUserActions
    /\ n_user' = n_user + 1
    /\ preview_next_effect
    /\ UNCHANGED <<disk, var_formats, var_auto_detect, var_auto_refresh,
                   stop_auto_refresh, next_id, selected_folders, selection, threads,
                   main, report, util, preview, n_changes>>

\* lines 511-522: Play / Pause; starting the slideshow runs its first step
_toggle_slideshow ==
    /\ main.pc = "idle"
    /\ n_user < MaxUserActions
    /\ n_user' = n_user + 1
    /\ IF preview.slot = 0 THEN UNCHANGED <<preview, slots>>
       ELSE IF preview.playing
       THEN preview' = [preview EXCEPT !.playing = FALSE] /\ UNCHANGED slots
       ELSE preview' = [preview EXCEPT !.playing = TRUE] /\ preview_next_effect
    /\ UNCHANGED <<disk, var_formats, var_auto_detect, var_auto_refresh,
                   stop_auto_refresh, next_id, selected_folders, selection, threads,
                   main, report, util, n_changes>>

\* lines 524-527: the timer of the slideshow fires
_slideshow_step ==
    /\ main.pc = "idle"
    /\ preview.playing
    /\ preview_next_effect
    /\ UNCHANGED <<disk, var_formats, var_auto_detect, var_auto_refresh,
                   stop_auto_refresh, next_id, selected_folders, selection, threads,
                   main, report, util, preview, n_user, n_changes>>

(***************************************************************************)
(* The preview of one folder that is checked again and again while its     *)
(* content changes                                                         *)
(***************************************************************************)

PreviewDirs ==
    WatchedDirs \cup
        { [readable |-> TRUE,
           listing |-> <<Name("s_1.png"), Name("s_2.png"), Name("s_04.png")>>] }

InitPreview ==
    /\ disk \in { [p \in Paths |-> IF p = "A" THEN d ELSE EmptyDir] : d \in PreviewDirs }
    /\ var_formats = FormatsDefault
    /\ var_auto_detect = TRUE
    /\ var_auto_refresh = FALSE
    /\ stop_auto_refresh = FALSE
    /\ slots = [i \in 1..MaxAdds |-> IF i = 1 THEN new_slot("A") ELSE NoSlot]
    /\ next_id = 2
    /\ selected_folders = <<1>>
    /\ selection = <<0>>
    /\ threads = [t \in Tids |-> NoThread]
    /\ main = MainIdle
    /\ report = NoReport
    /\ util = NoUtil
    /\ n_user = 0
    /\ n_changes = 0
    /\ preview = NoPreview

NextPreview ==
    \/ \E S \in SUBSET (0..(MaxAdds - 1)) : SelectRows(S)
    \/ \E d \in PreviewDirs : DiskChange("A", d)
    \/ _run_check_selected
    \/ \E t \in Tids : WorkerIter(t)
    \/ \E t \in Tids : WorkerListdir(t)
    \/ \E t \in Tids : WorkerStore(t)
    \/ \E t \in Tids : WorkerFinish(t)
    \/ _preview_prev
    \/ _preview_next
    \/ _toggle_slideshow
    \/ _slideshow_step

SpecPreview == InitPreview /\ [][NextPreview]_vars

(***************************************************************************)
(* The auto-refresh loop on one folder, with threads that are scheduled    *)
(* again and again: a thread that can take a step eventually takes it      *)
(***************************************************************************)

\* how often the check box is clicked while the loop is watched
MaxToggles == 3

InitAuto ==
    /\ disk \in { [p \in Paths |-> IF p = "A" THEN d ELSE EmptyDir] : d \in WatchedDirs }
    /\ var_formats = FormatsDefault
    /\ var_auto_detect = TRUE
    /\ var_auto_refresh = FALSE
    /\ stop_auto_refresh = FALSE
    /\ slots = [i \in 1..MaxAdds |-> IF i = 1 THEN new_slot("A") ELSE NoSlot]
    /\ next_id = 2
    /\ selected_folders = <<1>>
    /\ selection = <<>>
    /\ threads = [t \in Tids |-> NoThread]
    /\ main = MainIdle
    /\ report = NoReport
    /\ util = NoUtil
    /\ n_user = MaxUserActions - MaxToggles
    /\ n_changes = 0
    /\ preview = NoPreview

ThreadStep(t) ==
    \/ WorkerIter(t)
    \/ WorkerListdir(t)
    \/ WorkerStore(t)
    \/ WorkerFinish(t)
    \/ AutoLoopTest(t)
    \/ AutoSleep(t)

NextAuto ==
    \/ _toggle_auto_refresh
    \/ \E t \in Tids : WorkerIter(t)
    \/ \E t \in Tids : WorkerListdir(t)
    \/ \E t \in Tids : WorkerStore(t)
    \/ \E t \in Tids : WorkerFinish(t)
    \/ \E t \in Tids : AutoLoopTest(t)
    \/ \E t \in Tids : AutoSleep(t)

FairThreads == \A t \in Tids : WF_vars(ThreadStep(t))

SpecAuto == InitAuto /\ [][NextAuto]_vars /\ FairThreads

(***************************************************************************)
(* Properties                                                              *)
(***************************************************************************)

min_of(S) == CHOOSE x \in S : \A y \in S : x <= y

max_of(S) == CHOOSE x \in S : \A y \in S : y <= x

strictly_increasing(s) == \A i \in 1..(Len(s) - 1) : s[i] < s[i + 1]

\* frames and missing split the interval from the least to the greatest frame
partitions_interval(frames, missing) ==
    LET F == Range(frames)
        M == Range(missing)
    IN  /\ F \cup M = min_of(F)..max_of(F)
        /\ F \cap M = {}
        /\ \A m \in M : min_of(F) <= m /\ m <= max_of(F)

\* the text of a decimal integer: an optional "-", then digits
is_int_text(s) ==
    LET body == IF s # <<>> /\ s[1] = "-" THEN Tail(s) ELSE s
    IN  body # <<>> /\ \A i \in 1..Len(body) : IsDigit(body[i])

int_text_value(s) ==
    IF s[1] = "-" THEN 0 - digits_value(Tail(s)) ELSE digits_value(s)

\* the ways to read a token as "N" (the pair N, N) or as "N-M" (the pair N, M)
token_readings(tok) ==
    (IF is_int_text(tok) THEN {<<int_text_value(tok), int_text_value(tok)>>} ELSE {})
        \cup { <<int_text_value(SubSeq(tok, 1, i - 1)), int_text_value(SubSeq(tok, i + 1, Len(tok)))>> :
                   i \in { j \in 2..(Len(tok) - 1) :
                               /\ tok[j] = "-"
                               /\ is_int_text(SubSeq(tok, 1, j - 1))
                               /\ is_int_text(SubSeq(tok, j + 1, Len(tok))) } }

token_reading(tok) == CHOOSE r \in token_readings(tok) : TRUE

interval_list(lo, hi) == [i \in 1..(hi - lo + 1) |-> lo + i - 1]

RECURSIVE expand_tokens(_)
expand_tokens(blocks) ==
    IF blocks = <<>> THEN <<>>
    ELSE LET r == token_reading(Head(blocks))
         IN  interval_list(r[1], r[2]) \o expand_tokens(Tail(blocks))

\* C2: for every strictly increasing list given to summarize_missing_blocks,
\* each returned token reads in one way only, as "N" or as "N-M" with N < M;
\* expanding the tokens in order gives back exactly the input list; no two
\* adjacent tokens touch (the end of one plus 1 is never the start of the
\* next); the empty list gives no token.
C2_Compression ==
    util.pc = "done" =>
        /\ \A k \in 1..Len(util.blocks) :
               /\ Cardinality(token_readings(util.blocks[k])) = 1
               /\ token_reading(util.blocks[k])[1] <= token_reading(util.blocks[k])[2]
        /\ expand_tokens(util.blocks) = util.missing
        /\ \A k \in 1..(Len(util.blocks) - 1) :
               token_reading(util.blocks[k])[2] + 1 # token_reading(util.blocks[k + 1])[1]
        /\ (util.missing = <<>> => util.blocks = <<>>)

\* a list with a negative run, a single and a later run was summarized
C2_Witness ==
    /\ util.pc = "done"
    /\ Len(util.blocks) >= 3
    /\ \E k \in 1..Len(util.blocks) :
           LET r == token_reading(util.blocks[k]) IN r[1] < 0 /\ r[2] < 0 /\ r[1] < r[2]
    /\ \E k \in 1..Len(util.blocks) :
           LET r == token_reading(util.blocks[k]) IN r[1] = r[2]

(***************************************************************************)
(* One check of folder "A" (SpecCheck): what was read and what is shown    *)
(***************************************************************************)

\* the worker has finished the check of the folder: stored, dated, reported
CheckDone == slots[1].last_checked = "now" /\ report.kind = "report"

\* the file's extension without its dot, lower-cased
ext_key(f) ==
    LET e == splitext_ext(f) IN IF e = <<>> THEN <<>> ELSE lower(Tail(e))

\* the candidates as the extension rule states them
rule_candidate(f) ==
    LET allowed == allowed_of(var_formats)
    IN  IF allowed # <<>>
        THEN \E i \in 1..Len(allowed) : allowed[i] = ext_key(f)
        ELSE \E e \in SUPPORTED_IMAGE_FORMATS : e = <<".">> \o ext_key(f)

rule_candidates == { f \in Range(disk["A"].listing) : rule_candidate(f) }

\* a digit run, a dot, word characters, and nothing else
digits_dot_ext(f) ==
    /\ last_dot(f) > 1
    /\ last_dot(f) < Len(f)
    /\ \A i \in 1..(last_dot(f) - 1) : IsDigit(f[i])
    /\ \A i \in (last_dot(f) + 1)..Len(f) : IsWord(f[i])

whole_run_value(f) == digits_value(SubSeq(f, 1, last_dot(f) - 1))

\* C3: a folder holding only a candidate file named by a digit run and a
\* dot-extension ("42.png") is reported, once checked, with no prefix, with
\* the value of the whole digit run as its only frame, start = end = that
\* value, and nothing missing.
C3_DigitsOnlyName ==
    \A f \in rule_candidates :
        (CheckDone /\ disk["A"].listing = <<f>> /\ digits_dot_ext(f)) =>
            /\ slots[1].prefix = NoneVal
            /\ slots[1].frames = <<whole_run_value(f)>>
            /\ slots[1].missing = <<>>
            /\ report.start = whole_run_value(f)
            /\ report.end = whole_run_value(f)

\* the completeness text of a report with every expected frame found
FullCompleteness == <<"1", "0", "0", ".", "0", "0", "%">>

single_file_report ==
    /\ report.start = report.end
    /\ slots[1].missing = <<>>
    /\ report.n_missing = 0
    /\ report.found = 1
    /\ report.total = 1
    /\ report.completeness = FullCompleteness

\* C4 as stated: whenever the candidate list of the finished check holds
\* exactly one file, the report has start = end, nothing missing, and one
\* frame found of one expected (completeness 1.0).
C4_SingleFileAlways ==
    (CheckDone /\ Cardinality(rule_candidates) = 1) => single_file_report

\* C4: when the candidate list of the finished check holds exactly one file
\* and a frame index was extracted from it, the report has start = end,
\* nothing missing, and one frame found of one expected (completeness 1.0).
C4_SingleFileWithIndex ==
    (CheckDone /\ Cardinality(rule_candidates) = 1 /\ slots[1].frames # <<>>)
        => single_file_report

\* a finished check of a folder with one candidate among other files, which
\* gave a frame
C4_Witness ==
    /\ CheckDone
    /\ Cardinality(rule_candidates) = 1
    /\ Len(disk["A"].listing) > 1
    /\ slots[1].frames # <<>>
    /\ report.completeness = FullCompleteness

\* C5: a finished check in which no frame was detected is never shown with
\* the status and the closing message of a complete sequence ("Done",
\* "All frames complete").
C5_EmptyShownApart ==
    (CheckDone /\ slots[1].frames = <<>>) =>
        ~(slots[1].status = <<"Done">> /\ report.message.kind = "All frames complete")

\* C9: the candidate list of a check is exactly the listed files the
\* extension rule admits (allow-list entry = extension without dot,
\* lower-cased; with no allow-list, lower-cased extension in the supported
\* set), in sorted order; the pattern and every frame come from candidates
\* only: each frame is the index of some candidate, and the result is the one
\* the candidates alone would give.
C9_FilterFirst ==
    \A t \in Tids :
        threads[t].pc = "w_store" =>
            LET res == threads[t].res
                only == [readable |-> disk["A"].readable, listing |-> res.files]
            IN  /\ Range(res.files) = rule_candidates
                /\ res.files = sorted_str(res.files)
                /\ \A n \in Range(res.frames) :
                       \E f \in rule_candidates : n \in Range(file_nums(f, res.prefix, res.ext))
                /\ res = _check_folder(only, var_formats, var_auto_detect)

\* a check admitted an upper-case extension, left out a numbered file with
\* another extension, and found a frame
C9_Witness ==
    \E t \in Tids :
        /\ threads[t].pc = "w_store"
        /\ \E f \in rule_candidates : splitext_ext(f) # lower(splitext_ext(f))
        /\ \E f \in Range(disk["A"].listing) \ rule_candidates : search_digits_ext(f).ok
        /\ threads[t].res.frames # <<>>

\* C10: when no listed file is a candidate, the check ends normally (the
\* worker is never ended by an exception) and its result, computed and then
\* stored, has no frames and nothing missing.
C10_EmptyInput ==
    rule_candidates = {} =>
        /\ threads[1].pc = "w_store" =>
               threads[1].res.frames = <<>> /\ threads[1].res.missing = <<>>
        /\ threads[1].kind = "free" => CheckDone
        /\ CheckDone => slots[1].frames = <<>> /\ slots[1].missing = <<>>

\* a folder holding only a file the allow-list leaves out was checked with
\* auto-detect off
C10_Witness ==
    /\ CheckDone
    /\ threads[1].kind = "free"
    /\ rule_candidates = {}
    /\ disk["A"].listing # <<>>
    /\ ~var_auto_detect
    /\ report.found = 0

(***************************************************************************)
(* The running application (Spec) and the comparison (SpecCompare)         *)
(***************************************************************************)

\* the worker threads that are inside _check_folder for slot id
threads_in_check(id) ==
    { t \in Tids : threads[t].pc \in {"w_list", "w_store"} /\ threads[t].slot = id }

\* whether the compare handler is inside _check_folder for slot id
main_in_check(id) ==
    \/ main.pc \in {"cmp_a_list", "cmp_a_store"} /\ main.a = id
    \/ main.pc \in {"cmp_b_list", "cmp_b_store"} /\ main.b = id

in_flight(id) == Cardinality(threads_in_check(id)) + (IF main_in_check(id) THEN 1 ELSE 0)

\* C1: whenever no run of _check_folder is in flight for a slot and the
\* slot's stored frames list is not empty (a completed check found a frame
\* index), the stored frames and missing lists partition the interval
\* [min(frames), max(frames)]: their union is the interval, they share no
\* element, and missing holds nothing outside the interval.
C1_StoredPartition ==
    \A id \in 1..MaxAdds :
        (in_flight(id) = 0 /\ slots[id].frames # <<>>) =>
            partitions_interval(slots[id].frames, slots[id].missing)

\* C6: at any moment at most one run of _check_folder is in flight for a
\* folder slot, whether started by Check/Refresh, by the auto-refresh loop
\* or by compare.
C6_OneInFlight == \A id \in 1..MaxAdds : in_flight(id) <= 1

\* the fields of every slot that a check stores
stored_fields ==
    [id \in 1..MaxAdds |->
        <<slots[id].frames, slots[id].missing, slots[id].prefix, slots[id].ext>>]

stored_fields_next ==
    [id \in 1..MaxAdds |->
        <<slots'[id].frames, slots'[id].missing, slots'[id].prefix, slots'[id].ext>>]

\* a step of the compare handler: the only steps that change main
compare_step == main' # main

CheckingPcs == {"cmp_a_list", "cmp_a_store", "cmp_b_list", "cmp_b_store"}

\* C7 as stated: no step of the compare handler enters a directory read or
\* an analysis of either folder, and every step of it leaves the stored
\* frames, missing, prefix and ext of the folders unchanged.
C7_CompareReadsNothing ==
    [][compare_step =>
          /\ main'.pc \notin CheckingPcs
          /\ stored_fields_next = stored_fields]_vars

\* C7: the compare handler analyses a folder exactly when the folder's
\* stored frames list is empty at the moment the handler examines it
\* (first folder a, then folder b); a step of the handler changes a slot only
\* when it stores the result of such an analysis, and then only that slot's
\* frames, missing, prefix and ext; a folder whose list was non-empty when
\* examined is neither read nor changed by the handler.
C7_CompareChecksOnlyEmpty ==
    [][compare_step =>
          /\ main.pc = "idle" =>
                 (main'.pc = "cmp_a_list" <=> slots[main'.a].frames = <<>>)
          /\ (main.pc \in {"idle", "cmp_a_store"} /\ main'.pc \in {"cmp_b_list", "cmp_sets"}) =>
                 (main'.pc = "cmp_b_list" <=> slots[main'.b].frames = <<>>)
          /\ main'.pc \in {"cmp_a_store", "cmp_b_store"} => main.pc \in CheckingPcs
          /\ main.pc \notin {"cmp_a_store", "cmp_b_store"} => slots' = slots
          /\ main.pc = "cmp_a_store" =>
                 \A id \in 1..MaxAdds : id # main.a => slots'[id] = slots[id]
          /\ main.pc = "cmp_b_store" =>
                 \A id \in 1..MaxAdds : id # main.b => slots'[id] = slots[id]
          /\ \A id \in 1..MaxAdds :
                 /\ slots'[id].path = slots[id].path
                 /\ slots'[id].status = slots[id].status
                 /\ slots'[id].last_checked = slots[id].last_checked]_vars

\* the handler left folder a, which has frames, as it is and is reading
\* folder b, whose list is empty
C7_Witness ==
    /\ main.pc = "cmp_b_list"
    /\ slots[main.a].frames # <<>>
    /\ slots[main.b].frames = <<>>

\* C8: with A and B the frames of the two compared folders, the comparison
\* gives only_a = A \ B, only_b = B \ A and both = A \cap B, each in strictly
\* ascending order; the three are pairwise disjoint and together make up
\* A \cup B.
C8_CompareSets ==
    main.pc = "cmp_report" =>
        LET A == Range(slots[main.a].frames)
            B == Range(slots[main.b].frames)
            only_a == main.sets.only_a
            only_b == main.sets.only_b
            both == main.sets.both
        IN  /\ Range(only_a) = A \ B
            /\ Range(only_b) = B \ A
            /\ Range(both) = A \cap B
            /\ strictly_increasing(only_a)
            /\ strictly_increasing(only_b)
            /\ strictly_increasing(both)
            /\ Range(only_a) \cap Range(only_b) = {}
            /\ Range(only_a) \cap Range(both) = {}
            /\ Range(only_b) \cap Range(both) = {}
            /\ Range(only_a) \cup Range(only_b) \cup Range(both) = A \cup B

\* a comparison in which each of the three lists has several frames
C8_Witness ==
    /\ main.pc = "cmp_report"
    /\ Len(main.sets.only_a) >= 2
    /\ Len(main.sets.only_b) >= 2
    /\ Len(main.sets.both) >= 2

(***************************************************************************)
(* The extraction loop of one check (SpecCheck)                            *)
(***************************************************************************)

\* the two extraction rules as stated: rule 1 for a file that starts with a
\* non-null prefix and ends with the extension (the text between them read
\* as an integer, or nothing); rule 2 for every other file (the digit run
\* just before a dot-extension at the end, or nothing)
rule1_applies(f, prefix, ext) ==
    /\ prefix # NoneVal
    /\ ext # NoneVal
    /\ Len(prefix) + Len(ext) <= Len(f)
    /\ SubSeq(f, 1, Len(prefix)) = prefix
    /\ SubSeq(f, Len(f) - Len(ext) + 1, Len(f)) = ext

rule_index(f, prefix, ext) ==
    IF rule1_applies(f, prefix, ext)
    THEN LET n == int_parse(SubSeq(f, Len(prefix) + 1, Len(f) - Len(ext)))
         IN  IF n.ok THEN {n.val} ELSE {}
    ELSE LET m == search_digits_ext(f)
         IN  IF m.ok THEN {digits_value(m.digits)} ELSE {}

without_file(files, f) == LET other(g) == g # f IN SelectSeq(files, other)

\* C11: a candidate that yields no index is dropped and the rest is
\* reported: the frames of the check are the frames the extraction loop
\* gives with that file left out of it (same prefix and extension), and the
\* worker is never ended by an exception.
C11_MalformedDropped ==
    /\ threads[1].kind = "free" => CheckDone
    /\ threads[1].pc = "w_store" =>
           LET res == threads[1].res
           IN  \A f \in Range(res.files) :
                   rule_index(f, res.prefix, res.ext) = {} =>
                       Range(res.frames) =
                           Range(extract_nums(without_file(res.files, f), res.prefix, res.ext))

\* a check whose candidate list has a file with no index sorted before files
\* with one, and which found a frame
C11_Witness ==
    /\ threads[1].pc = "w_store"
    /\ LET res == threads[1].res
       IN  /\ Len(res.files) >= 2
           /\ rule_index(res.files[1], res.prefix, res.ext) = {}
           /\ res.frames # <<>>

\* the listings with the same files as l, in every order
permutations_of(l) ==
    { m \in [1..Len(l) -> Range(l)] : Range(m) = Range(l) }

least_name(S) == CHOOSE f \in S : \A g \in S : f = g \/ str_less(f, g)

\* C12: the result of a check is the same for every order in which the
\* directory lists the same files (prefix, extension, frames, missing and the
\* candidate list), and with auto-detect on the pattern is the one detected
\* on the least candidate name.
C12_OrderInvariant ==
    threads[1].pc = "w_store" =>
        LET res == threads[1].res
            dir == disk["A"]
        IN  /\ \A m \in permutations_of(dir.listing) :
                   _check_folder([dir EXCEPT !.listing = m], var_formats, var_auto_detect) = res
            /\ (var_auto_detect /\ res.files # <<>>) =>
                   LET d == detect_prefix_and_ext(<<least_name(Range(res.files))>>)
                   IN  res.prefix = d.prefix /\ res.ext = d.ext

\* a check of a listing given in descending order, whose pattern comes from
\* the file listed last
C12_Witness ==
    /\ threads[1].pc = "w_store"
    /\ var_auto_detect
    /\ LET l == disk["A"].listing
       IN  /\ Len(l) = MaxFiles
           /\ \A i \in 1..(Len(l) - 1) : str_less(l[i + 1], l[i])
           /\ threads[1].res.prefix # NoneVal
           /\ threads[1].res.files # <<>>
           /\ threads[1].res.files[1] = l[Len(l)]
           /\ Len(threads[1].res.frames) >= 2

\* C13: the frames of a check are exactly the indices the two rules give,
\* each candidate handled by one rule only: a file that starts with the
\* non-null prefix and ends with the extension gives the integer between
\* them or nothing (never the digits before the extension instead), every
\* other file gives the digits before its extension or nothing.
C13_OneRulePerFile ==
    threads[1].pc = "w_store" =>
        LET res == threads[1].res
        IN  Range(res.frames) =
                UNION { rule_index(f, res.prefix, res.ext) : f \in Range(res.files) }

\* a check in which a file matching prefix and extension has a text between
\* them that is no integer, though digits stand before its extension, and
\* another file gave a frame
C13_Witness ==
    /\ threads[1].pc = "w_store"
    /\ LET res == threads[1].res
       IN  /\ res.frames # <<>>
           /\ \E f \in Range(res.files) :
                  /\ rule1_applies(f, res.prefix, res.ext)
                  /\ rule_index(f, res.prefix, res.ext) = {}
                  /\ search_digits_ext(f).ok
           /\ \E f \in Range(res.files) :
                  ~rule1_applies(f, res.prefix, res.ext) /\ rule_index(f, res.prefix, res.ext) # {}

(***************************************************************************)
(* Threads of the running application (Spec)                               *)
(***************************************************************************)

\* the threads running _auto_refresh_loop
auto_threads == { t \in Tids : threads[t].kind = "auto" }

\* C14: at most one auto-refresh loop thread is alive at any time, however
\* the check box is switched on and off.
C14_OneAutoLoop == Cardinality(auto_threads) <= 1

\* C15: a worker inside a pass analyses and updates only folders that the
\* rows it was started with stood for at that time, whatever is removed from
\* the list meanwhile.
C15_OnlyOriginalFolders ==
    \A t \in Tids :
        threads[t].pc \in {"w_list", "w_store", "w_finish"} =>
            threads[t].slot \in threads[t].orig

(***************************************************************************)
(* The preview index (SpecPreview)                                         *)
(***************************************************************************)

\* a check of slot id is running or about to render its result
check_pending(id) ==
    \E t \in Tids : threads[t].pc \in {"w_list", "w_store", "w_finish"} /\ threads[t].slot = id

\* C16: whenever there is a preview slot and no check of it is under way,
\* its stored preview index is not negative and not past the last frame
\* (with no frame left, not past 0).
C16_PreviewIndexInRange ==
    (preview.slot # 0 /\ ~check_pending(preview.slot)) =>
        LET slot == slots[preview.slot]
        IN  /\ slot._preview_idx >= 0
            /\ slot._preview_idx <= (IF slot.frames = <<>> THEN 0 ELSE Len(slot.frames) - 1)

(***************************************************************************)
(* The end of the auto-refresh loop (SpecAuto)                             *)
(***************************************************************************)

\* while the stop flag stays set, a loop thread at its test leaves the loop
\* and starts no pass, and a loop thread in its interval goes to the test
\* at its next poll
stopped_loop_step(t) ==
    (stop_auto_refresh /\ stop_auto_refresh' /\ threads[t].kind = "auto"
         /\ threads'[t] # threads[t]) =>
        /\ threads[t].pc = "a_test" => threads'[t] = NoThread
        /\ threads[t].pc = "a_sleep" => threads'[t].pc = "a_test"
        /\ threads'[t].pc = "w_iter" => threads[t].pc \in {"w_iter", "w_finish"}

\* C17: once auto-refresh is switched off and as long as it is not switched
\* on again, every auto-refresh loop thread eventually exits; it starts no
\* new pass after the one in progress, and from its interval it goes to the
\* loop test at its next poll of the stop flag.
C17_LoopExits ==
    /\ \A t \in Tids :
           (stop_auto_refresh /\ threads[t].kind = "auto")
               ~> (threads[t].kind # "auto" \/ ~stop_auto_refresh)
    /\ [][\A t \in Tids : stopped_loop_step(t)]_vars

\* auto-refresh was switched off while the loop was inside a pass
C17_Witness ==
    /\ stop_auto_refresh
    /\ ~var_auto_refresh
    /\ \E t \in Tids : threads[t].kind = "auto" /\ threads[t].pc = "w_store"

====
